---- MODULE Spec2Model ----
(***************************************************************************)
(* Model of the API gateway of cmd/apigateway/main.go: an                  *)
(* httputil.ReverseProxy whose Director resolves the first path segment    *)
(* through the Consul catalog, whose ModifyResponse rewrites the body and  *)
(* whose ErrorHandler re-queries the catalog to classify a failure.        *)
(*                                                                         *)
(* Strings are sequences of one-character strings (a multi-character       *)
(* element stands for a fixed piece of text that is never split).          *)
(***************************************************************************)
EXTENDS Integers, Sequences, FiniteSets, TLC

(***************************************************************************)
(* Bounds of the model.                                                    *)
(***************************************************************************)
MaxSegments == 2
MaxInstances == 2
MaxRand == 2
MaxBody == 1

\* the requests of the model, each served by its own task: Reqs are served
\* one alone, ConcReqs side by side
Reqs == {"r1"}
ConcReqs == {"r1", "r2"}

(***************************************************************************)
(* Strings.                                                                *)
(***************************************************************************)
\* index of the first "/" of s, 0 when there is none
RECURSIVE IndexOfSlash(_, _)
IndexOfSlash(s, i) ==
    IF i > Len(s) THEN 0
    ELSE IF s[i] = "/" THEN i
    ELSE IndexOfSlash(s, i + 1)

\* strings.Split(s, "/"): the substrings between the separators; a string
\* without separator (the empty string included) gives the one-element list.
RECURSIVE Split(_)
Split(s) ==
    LET i == IndexOfSlash(s, 1)
    IN  IF i = 0 THEN <<s>>
        ELSE <<SubSeq(s, 1, i - 1)>> \o Split(SubSeq(s, i + 1, Len(s)))

\* strings.Join(elems, "/")
RECURSIVE Join(_)
Join(elems) ==
    IF Len(elems) = 0 THEN <<>>
    ELSE IF Len(elems) = 1 THEN elems[1]
    ELSE elems[1] \o <<"/">> \o Join(Tail(elems))

Digit(d) == CASE d = 0 -> "0" [] d = 1 -> "1" [] d = 2 -> "2" [] d = 3 -> "3"
              [] d = 4 -> "4" [] d = 5 -> "5" [] d = 6 -> "6" [] d = 7 -> "7"
              [] d = 8 -> "8" [] d = 9 -> "9"

\* strconv.FormatInt(n, 10) and the %d verb, for n >= 0
RECURSIVE FormatInt(_)
FormatInt(n) ==
    IF n < 10 THEN <<Digit(n)>>
    ELSE FormatInt(n \div 10) \o <<Digit(n % 10)>>

\* TRUE iff sub occurs in s as a contiguous substring
Contains(s, sub) ==
    \E i \in 1..(Len(s) - Len(sub) + 1) : SubSeq(s, i, i + Len(sub) - 1) = sub

(***************************************************************************)
(* The inbound requests.  The server hands the handler a URL with only a   *)
(* path for an origin-form request line (GET /a/b, GET * )     and a URL   *)
(* with scheme, host and possibly empty path for an absolute-form one      *)
(* (GET http://h/a/b, GET http://h).                                       *)
(***************************************************************************)
Segments == {<<>>, <<"a">>, <<"b">>}

RECURSIVE SegmentLists(_)
SegmentLists(n) ==
    IF n = 1 THEN {<<g>> : g \in Segments}
    ELSE SegmentLists(n - 1)
         \cup {l \o <<g>> : l \in SegmentLists(n - 1), g \in Segments}

\* "/", "/a", "//", "/a/", "/a/b", ... : up to MaxSegments segments
SlashPaths == {<<"/">> \o Join(l) : l \in SegmentLists(MaxSegments)}

RemoteAddr == <<"192.0.2.7:51000">>
CallerHost == <<"elsewhere.example:80">>
CallerRealIp == {<<>>, <<<<"6.6.6.6">>>>}

Inbound ==
    {[Scheme |-> "", Host |-> <<>>, Path |-> p, XRealIp |-> h,
      RemoteAddr |-> RemoteAddr] :
        p \in SlashPaths \cup {<<"*">>}, h \in CallerRealIp}
    \cup
    {[Scheme |-> "http", Host |-> CallerHost, Path |-> p, XRealIp |-> h,
      RemoteAddr |-> RemoteAddr] :
        p \in SlashPaths \cup {<<>>}, h \in CallerRealIp}

NoRequest ==
    [Scheme |-> "", Host |-> <<>>, Path |-> <<>>, XRealIp |-> <<>>,
     RemoteAddr |-> <<>>]

(***************************************************************************)
(* The registry (Consul catalog): an external capability.  A lookup either *)
(* fails with a communication error or returns a list of instances, which  *)
(* may be empty; the answer is not under the gateway's control.            *)
(***************************************************************************)
Instances ==
    {[ServiceAddress |-> <<"10.0.0.5">>, ServicePort |-> 9090, ServiceID |-> "i1"],
     [ServiceAddress |-> <<"10.0.0.6">>, ServicePort |-> 80, ServiceID |-> "i2"]}

RECURSIVE InstanceListsOfLen(_)
InstanceListsOfLen(n) ==
    IF n = 0 THEN {<<>>}
    ELSE {l \o <<i>> : l \in InstanceListsOfLen(n - 1), i \in Instances}

InstanceLists == UNION {InstanceListsOfLen(n) : n \in 0..MaxInstances}


(***************************************************************************)
(* The backend and the transport.                                          *)
(***************************************************************************)
StatusCodes == {200, 201, 203, 204, 404, 500}

RECURSIVE BodiesUpTo(_)
BodiesUpTo(n) ==
    IF n = 0 THEN {<<>>}
    ELSE BodiesUpTo(n - 1) \cup {b \o <<"x">> : b \in BodiesUpTo(n - 1)}

\* A backend response as the transport returns it: the body is still to be
\* read.  A response with a declared length, a chunked response
\* (ContentLength -1, no Content-Length header), and a response whose body
\* breaks off before its end (ReadOk false: reading it returns an error).
BackendResponses ==
    {[StatusCode |-> c, Body |-> b, ContentLength |-> Len(b),
      HdrContentLength |-> <<FormatInt(Len(b))>>, ReadOk |-> TRUE] :
        c \in StatusCodes, b \in BodiesUpTo(MaxBody)}
    \cup
    {[StatusCode |-> c, Body |-> b, ContentLength |-> -1,
      HdrContentLength |-> <<>>, ReadOk |-> TRUE] :
        c \in StatusCodes, b \in BodiesUpTo(MaxBody)}
    \cup
    {[StatusCode |-> c, Body |-> <<>>, ContentLength |-> -1,
      HdrContentLength |-> <<>>, ReadOk |-> FALSE] :
        c \in StatusCodes}

UnsupportedScheme == <<"unsupported protocol scheme">>
DialErrors == {<<"dial tcp: connection refused">>, <<"net/http: timeout awaiting response headers">>}
ReadError == <<"unexpected EOF">>

(***************************************************************************)
(* State.  Every request has its own task; per request:                    *)
(*   pc       where ReverseProxy.ServeHTTP stands for it                   *)
(*   inreq    the inbound request as the server received it                *)
(*   outreq   the outbound clone the Director mutates and the transport    *)
(*            sends (the ErrorHandler is handed this same object)          *)
(*   lookups  the registry calls made for it, in order, with their answers *)
(*   steps    the steps taken for it, in order                             *)
(*   tgt      the instance selected for it (none or one)                   *)
(*   xerr     the error handed to the ErrorHandler (none or one)           *)
(*   resp     the backend response (none or one)                           *)
(*   written  the responses written to the caller                          *)
(* and, outside the gateway, delisted: the instances the registry has      *)
(* stopped listing.                                                        *)
(***************************************************************************)
VARIABLES pc, inreq, outreq, lookups, steps, tgt, xerr, resp, written, delisted

vars == <<pc, inreq, outreq, lookups, steps, tgt, xerr, resp, written, delisted>>

Init ==
    /\ pc = [r \in ConcReqs |-> "idle"]
    /\ inreq = [r \in ConcReqs |-> NoRequest]
    /\ outreq = [r \in ConcReqs |-> NoRequest]
    /\ lookups = [r \in ConcReqs |-> <<>>]
    /\ steps = [r \in ConcReqs |-> <<>>]
    /\ tgt = [r \in ConcReqs |-> <<>>]
    /\ xerr = [r \in ConcReqs |-> <<>>]
    /\ resp = [r \in ConcReqs |-> <<>>]
    /\ written = [r \in ConcReqs |-> <<>>]
    /\ delisted = {}

\* client.Catalog().Service(serviceName, "", nil): (result, err); the
\* registry returns none of the instances it has stopped listing
CatalogService(serviceName) ==
    {[err |-> TRUE, result |-> <<>>]}
    \cup {[err |-> FALSE, result |-> l] :
             l \in {m \in InstanceLists :
                       \A i \in 1..Len(m) : m[i] \notin delisted}}

\* the registry stops listing instance inst
Delist(inst) ==
    /\ inst \notin delisted
    /\ delisted' = delisted \cup {inst}
    /\ UNCHANGED <<pc, inreq, outreq, lookups, steps, tgt, xerr, resp, written>>

\* one outbound request object shared by all requests instead of a clone
AcceptShared(r, in) ==
    /\ pc[r] = "idle"
    /\ \E q \in in :
         /\ inreq' = [inreq EXCEPT ![r] = q]
         /\ outreq' = [p \in ConcReqs |-> q]
    /\ pc' = [pc EXCEPT ![r] = "director"]
    /\ UNCHANGED <<lookups, steps, tgt, xerr, resp, written, delisted>>

\* ServeHTTP is entered for request r with an inbound request from the set
\* in; the Director works on a clone of it.
Accept(r, in) ==
    /\ pc[r] = "idle"
    /\ \E q \in in :
         /\ inreq' = [inreq EXCEPT ![r] = q]
         /\ outreq' = [outreq EXCEPT ![r] = q]
    /\ pc' = [pc EXCEPT ![r] = "director"]
    /\ UNCHANGED <<lookups, steps, tgt, xerr, resp, written, delisted>>

(***************************************************************************)
(* The Director.                                                           *)
(***************************************************************************)
\* the empty-path test left out
UnroutableNever(reqPath) == FALSE

\* if reqPath == "" { return }
Unroutable(reqPath) == reqPath = <<>>

\* pathArray[1] is in range
HasServiceName(pathArray) == Len(pathArray) >= 2

\* serviceName := pathArray[1]
ServiceName(pathArray) == pathArray[2]

\* the slice taken one element too early: the service name is kept
DestPathFromName(pathArray) == Join(SubSeq(pathArray, 2, Len(pathArray)))

\* destPath := strings.Join(pathArray[2:], "/")
DestPath(pathArray) == Join(SubSeq(pathArray, 3, Len(pathArray)))

\* the instance chosen for an earlier request kept and used again
SelectCached(result, n) ==
    LET earlier == {q \in ConcReqs : tgt[q] # <<>>}
    IN  IF earlier # {} THEN tgt[CHOOSE q \in earlier : TRUE][1]
        ELSE result[(n % Len(result)) + 1]

\* tgt := result[rand.Int()%len(result)]
Select(result, n) == result[(n % Len(result)) + 1]

\* fmt.Sprintf("%s:%d", tgt.ServiceAddress, tgt.ServicePort)
HostPort(inst) == inst.ServiceAddress \o <<":">> \o FormatInt(inst.ServicePort)

\* the provenance header set only when the caller sent none
RoutedKeepingHeader(req, pathArray, inst) ==
    [req EXCEPT !.Scheme = "http",
                !.Host = HostPort(inst),
                !.Path = <<"/">> \o DestPath(pathArray),
                !.XRealIp = IF @ = <<>> THEN <<req.RemoteAddr>> ELSE @]

\* the four assignments that set the destination and the provenance header
Routed(req, pathArray, inst) ==
    [req EXCEPT !.Scheme = "http",
                !.Host = HostPort(inst),
                !.Path = <<"/">> \o DestPath(pathArray),
                !.XRealIp = <<req.RemoteAddr>>]

\* a registry call as lookups records it, with what the registry had
\* stopped listing when it answered
Lookup(by, serviceName, ans) ==
    [by |-> by, name |-> serviceName, err |-> ans.err, result |-> ans.result,
     delisted |-> delisted]

Director(r) ==
    /\ pc[r] = "director"
    /\ LET reqPath == outreq[r].Path
           pathArray == Split(reqPath)
       IN  IF Unroutable(reqPath)
           THEN /\ pc' = [pc EXCEPT ![r] = "roundtrip"]
                /\ UNCHANGED <<outreq, lookups, steps, tgt>>
           ELSE IF ~HasServiceName(pathArray)
           THEN \* index out of range: the handler's goroutine panics
                /\ pc' = [pc EXCEPT ![r] = "panic"]
                /\ UNCHANGED <<outreq, lookups, steps, tgt>>
           ELSE \E ans \in CatalogService(ServiceName(pathArray)), n \in 0..MaxRand :
                /\ lookups' = [lookups EXCEPT ![r] =
                       Append(@, Lookup("director", ServiceName(pathArray), ans))]
                /\ pc' = [pc EXCEPT ![r] = "roundtrip"]
                /\ IF ans.err \/ Len(ans.result) = 0
                   THEN /\ steps' = [steps EXCEPT ![r] = Append(@, "lookup")]
                        /\ UNCHANGED <<outreq, tgt>>
                   ELSE LET inst == Select(ans.result, n)
                        IN  /\ tgt' = [tgt EXCEPT ![r] = <<inst>>]
                            /\ outreq' = [outreq EXCEPT ![r] = Routed(@, pathArray, inst)]
                            /\ steps' = [steps EXCEPT ![r] = @ \o <<"lookup", "mutate">>]
    /\ UNCHANGED <<inreq, xerr, resp, written, delisted>>

(***************************************************************************)
(* The transport: ServeHTTP calls transport.RoundTrip(outreq) after the    *)
(* Director whatever the Director did; a Director has no way to stop it.   *)
(* A URL whose scheme is not http is refused without any connection; with  *)
(* scheme http the exchange with outreq's host fails or gives a response.  *)
(***************************************************************************)
RoundTrip(r) ==
    /\ pc[r] = "roundtrip"
    /\ steps' = [steps EXCEPT ![r] = Append(@, "forward")]
    /\ IF outreq[r].Scheme # "http"
       THEN /\ xerr' = [xerr EXCEPT ![r] = <<UnsupportedScheme>>]
            /\ pc' = [pc EXCEPT ![r] = "errhook"]
            /\ UNCHANGED resp
       ELSE \/ \E e \in DialErrors :
                 /\ xerr' = [xerr EXCEPT ![r] = <<e>>]
                 /\ pc' = [pc EXCEPT ![r] = "errhook"]
                 /\ UNCHANGED resp
            \/ \E b \in BackendResponses :
                 /\ resp' = [resp EXCEPT ![r] = <<b>>]
                 /\ pc' = [pc EXCEPT ![r] = "modify"]
                 /\ UNCHANGED xerr
    /\ UNCHANGED <<inreq, outreq, lookups, tgt, written, delisted>>

(***************************************************************************)
(* The response hook.                                                      *)
(***************************************************************************)
\* the check with conjunctions: a status outside 200, 201, 203, 204
StatusCheckNotSuccess(code) == code # 200 /\ code # 201 /\ code # 203 /\ code # 204

\* resp.StatusCode != 200 || resp.StatusCode != 201 || ... != 203 || ... != 204
StatusCheck(code) == code # 200 \/ code # 201 \/ code # 203 \/ code # 204

\* newPayload := []byte("" + string(oldPayload))
NewPayload(oldPayload) == <<>> \o oldPayload

\* the body replaced and the length left as the backend declared it
RewrittenStaleLength(res) == [res EXCEPT !.Body = NewPayload(res.Body)]

\* the response after the rewrite branch: body replaced, length recomputed
Rewritten(res) ==
    LET newPayload == NewPayload(res.Body)
    IN  [res EXCEPT !.Body = newPayload,
                    !.ContentLength = Len(newPayload),
                    !.HdrContentLength = <<FormatInt(Len(newPayload))>>]

\* the hook reporting a backend error status as an error
ModifyFuncStatusAsError(r) ==
    /\ pc[r] = "modify"
    /\ steps' = [steps EXCEPT ![r] = Append(@, "modify")]
    /\ LET res == resp[r][1]
       IN  IF res.ReadOk /\ res.StatusCode < 400
           THEN /\ resp' = [resp EXCEPT ![r] = Append(@, Rewritten(res))]
                /\ pc' = [pc EXCEPT ![r] = "copy"]
                /\ UNCHANGED xerr
           ELSE /\ xerr' = [xerr EXCEPT ![r] = <<ReadError>>]
                /\ pc' = [pc EXCEPT ![r] = "errhook"]
                /\ UNCHANGED resp
    /\ UNCHANGED <<inreq, outreq, lookups, tgt, written, delisted>>

\* resp[r] keeps the response the transport returned and, after it, the
\* response as the hook left it.  A hook that returns an error makes
\* ServeHTTP call the ErrorHandler with that error.
ModifyFunc(r) ==
    /\ pc[r] = "modify"
    /\ steps' = [steps EXCEPT ![r] = Append(@, "modify")]
    /\ LET res == resp[r][1]
       IN  IF StatusCheck(res.StatusCode)
           THEN IF res.ReadOk
                THEN /\ resp' = [resp EXCEPT ![r] = Append(@, Rewritten(res))]
                     /\ pc' = [pc EXCEPT ![r] = "copy"]
                     /\ UNCHANGED xerr
                ELSE /\ xerr' = [xerr EXCEPT ![r] = <<ReadError>>]
                     /\ pc' = [pc EXCEPT ![r] = "errhook"]
                     /\ UNCHANGED resp
           ELSE /\ resp' = [resp EXCEPT ![r] = Append(@, res)]
                /\ pc' = [pc EXCEPT ![r] = "copy"]
                /\ UNCHANGED xerr
    /\ UNCHANGED <<inreq, outreq, lookups, tgt, written, delisted>>

\* ServeHTTP relays the response the hook accepted: status and headers, then
\* the body; a body that cannot be read to its end aborts the handler.
CopyResponse(r) ==
    /\ pc[r] = "copy"
    /\ LET res == resp[r][Len(resp[r])]
       IN  IF res.ReadOk
           THEN /\ written' = [written EXCEPT ![r] = Append(@,
                       [StatusCode |-> res.StatusCode, Body |-> res.Body,
                        HdrContentLength |-> res.HdrContentLength])]
                /\ pc' = [pc EXCEPT ![r] = "done"]
           ELSE /\ written' = [written EXCEPT ![r] = Append(@,
                       [StatusCode |-> res.StatusCode, Body |-> <<>>,
                        HdrContentLength |-> res.HdrContentLength])]
                /\ pc' = [pc EXCEPT ![r] = "panic"]
    /\ UNCHANGED <<inreq, outreq, lookups, steps, tgt, xerr, resp, delisted>>

(***************************************************************************)
(* The error hook.                                                         *)
(***************************************************************************)
NotFoundText == <<" Not Found">>
RegistryError == <<"Unexpected response code: 500">>

\* http.Error(w, msg, code): plain text, the message followed by a newline
HttpError(msg, code) ==
    [StatusCode |-> code, Body |-> msg \o <<"\n">>,
     HdrContentLength |-> <<>>]

\* the error of the re-query dropped
ErrAfterLookupIgnored(err, ans) == <<>>

\* result, _, err := client.Catalog().Service(...) assigns the parameter err:
\* the value of err after the call, nil (<<>>) when the call succeeded
ErrAfterLookup(err, ans) == IF ans.err THEN <<RegistryError>> ELSE <<>>

ErrFunc(r) ==
    /\ pc[r] = "errhook"
    /\ steps' = [steps EXCEPT ![r] = Append(@, "errhook")]
    /\ LET reqPath == outreq[r].Path
           pathArray == Split(reqPath)
       IN  IF Unroutable(reqPath)
           THEN /\ pc' = [pc EXCEPT ![r] = "done"]
                /\ UNCHANGED <<lookups, written>>
           ELSE IF ~HasServiceName(pathArray)
           THEN /\ pc' = [pc EXCEPT ![r] = "panic"]
                /\ UNCHANGED <<lookups, written>>
           ELSE \E ans \in CatalogService(ServiceName(pathArray)) :
                LET serviceName == ServiceName(pathArray)
                    err == ErrAfterLookup(xerr[r], ans)
                IN  /\ lookups' = [lookups EXCEPT ![r] =
                           Append(@, Lookup("errFunc", serviceName, ans))]
                    /\ IF err # <<>>
                       THEN /\ pc' = [pc EXCEPT ![r] = "done"]
                            /\ UNCHANGED written
                       ELSE IF Len(ans.result) = 0
                       THEN /\ written' = [written EXCEPT ![r] = Append(@,
                                   HttpError(serviceName \o NotFoundText, 404))]
                            /\ pc' = [pc EXCEPT ![r] = "done"]
                       ELSE IF err = <<>>
                       THEN \* err.Error() on a nil error: the handler panics
                            /\ pc' = [pc EXCEPT ![r] = "panic"]
                            /\ UNCHANGED written
                       ELSE /\ written' = [written EXCEPT ![r] = Append(@,
                                   HttpError(<<>> \o err[1], 500))]
                            /\ pc' = [pc EXCEPT ![r] = "done"]
    /\ UNCHANGED <<inreq, outreq, tgt, xerr, resp, delisted>>

(***************************************************************************)
(* One request served in isolation.                                        *)
(***************************************************************************)
\* a failed exchange sent back through the Director
Retry(r) ==
    /\ pc[r] = "errhook"
    /\ pc' = [pc EXCEPT ![r] = "director"]
    /\ UNCHANGED <<inreq, outreq, lookups, steps, tgt, xerr, resp, written, delisted>>

HandleWithRetry(r) ==
    \/ Director(r)
    \/ RoundTrip(r)
    \/ ModifyFunc(r)
    \/ CopyResponse(r)
    \/ ErrFunc(r)
    \/ Retry(r)

\* a failed exchange sent to the transport once more
Resend(r) ==
    /\ pc[r] = "errhook"
    /\ Len(steps[r]) < 6
    /\ pc' = [pc EXCEPT ![r] = "roundtrip"]
    /\ UNCHANGED <<inreq, outreq, lookups, steps, tgt, xerr, resp, written, delisted>>

HandleWithResend(r) ==
    \/ Director(r)
    \/ RoundTrip(r)
    \/ ModifyFunc(r)
    \/ CopyResponse(r)
    \/ ErrFunc(r)
    \/ Resend(r)

Handle(r) ==
    \/ Director(r)
    \/ RoundTrip(r)
    \/ ModifyFunc(r)
    \/ CopyResponse(r)
    \/ ErrFunc(r)

Next ==
    \E r \in Reqs :
        \/ Accept(r, Inbound)
        \/ Handle(r)

Spec == Init /\ [][Next]_vars

(***************************************************************************)
(* Several requests served side by side, while the registry stops listing  *)
(* instances.  The inbound requests and the answers of registry and        *)
(* backend are drawn from a few cases.                                     *)
(***************************************************************************)
ConcInbound ==
    {q \in Inbound :
        /\ q.Scheme = ""
        /\ q.XRealIp = <<>>
        /\ q.Path \in {<<"/", "a", "/", "b">>, <<"/", "b">>}}

ConcResponses ==
    {b \in BackendResponses : b.StatusCode = 200 /\ b.ContentLength = -1}

ConcErrors == {<<>>, <<UnsupportedScheme>>, <<ReadError>>,
               <<<<"dial tcp: connection refused">>>>}

ConcCase ==
    \A r \in ConcReqs :
        /\ \A i \in 1..Len(lookups[r]) : Len(lookups[r][i].result) <= 1
        /\ resp[r] # <<>> => resp[r][1] \in ConcResponses
        /\ xerr[r] \in ConcErrors

NextConc ==
    \/ \E r \in ConcReqs : Accept(r, ConcInbound)
    \/ \E r \in ConcReqs : Director(r) /\ ConcCase'
    \/ \E r \in ConcReqs : RoundTrip(r) /\ ConcCase'
    \/ \E r \in ConcReqs : ModifyFunc(r) /\ ConcCase'
    \/ \E r \in ConcReqs : CopyResponse(r)
    \/ \E r \in ConcReqs : ErrFunc(r) /\ ConcCase'
    \/ \E inst \in Instances : Delist(inst)

SpecConc == Init /\ [][NextConc]_vars

TypeOK ==
    \A r \in Reqs :
        /\ pc[r] \in {"idle", "director", "roundtrip", "modify", "copy",
                      "errhook", "done", "panic"}
        /\ Len(tgt[r]) <= 1
        /\ Len(xerr[r]) <= 1
        /\ Len(resp[r]) <= 2

(***************************************************************************)
(* Vocabulary of the properties.                                           *)
(***************************************************************************)
Took(r, step) == \E i \in 1..Len(steps[r]) : steps[r][i] = step

PastDirector(r) == pc[r] \notin {"idle", "director"}

Finished(r) == pc[r] \in {"done", "panic"}

\* the Router's lookup of request r, when it made one
RouterLooked(r) == Len(lookups[r]) >= 1 /\ lookups[r][1].by = "director"

RouterFound(r) ==
    RouterLooked(r) /\ ~lookups[r][1].err /\ Len(lookups[r][1].result) >= 1

\* the error hook's re-query of request r, when it made one
HookLooked(r) ==
    Len(lookups[r]) >= 1 /\ lookups[r][Len(lookups[r])].by = "errFunc"

HookLookup(r) == lookups[r][Len(lookups[r])]

\* /{svc}/{rest...}: the path from its second "/" on, "/" when it has none
Remainder(path) ==
    LET k == IndexOfSlash(path, 2)
    IN  IF k = 0 THEN <<"/">> ELSE SubSeq(path, k, Len(path))

\* /{svc}/{rest...}: the text between the first "/" and the second
FirstSegment(path) ==
    LET k == IndexOfSlash(path, 2)
    IN  IF k = 0 THEN SubSeq(path, 2, Len(path)) ELSE SubSeq(path, 2, k - 1)

IsNotFound(w, svc) ==
    w.StatusCode = 404 /\ Contains(w.Body, svc \o NotFoundText)

(***************************************************************************)
(* C1: when the Router's lookup of svc for a path /{svc}/{rest...} returns *)
(* at least one instance, the request given to the transport has scheme    *)
(* http, path /{rest...} and the address:port of one of the returned       *)
(* instances as host - of the only one when one is returned.               *)
(***************************************************************************)
C1_RoutedDestination ==
    \A r \in Reqs :
        (RouterFound(r) /\ PastDirector(r)) =>
            LET result == lookups[r][1].result
            IN  /\ lookups[r][1].name = FirstSegment(inreq[r].Path)
                /\ outreq[r].Scheme = "http"
                /\ outreq[r].Path = Remainder(inreq[r].Path)
                /\ \E i \in 1..Len(result) :
                       /\ tgt[r] = <<result[i]>>
                       /\ outreq[r].Host = result[i].ServiceAddress \o <<":">>
                                              \o FormatInt(result[i].ServicePort)
                /\ Len(result) = 1 => tgt[r] = <<result[1]>>

C1_Witness ==
    \E r \in Reqs :
        /\ Took(r, "forward")
        /\ RouterFound(r)
        /\ Len(lookups[r][1].result) = 1
        /\ inreq[r].Path = <<"/", "a", "/", "b">>
        /\ outreq[r].Path = <<"/", "b">>

(***************************************************************************)
(* C2 (as claimed): an exchange that failed, followed by a re-query in the *)
(* error hook that succeeds with at least one instance, ends with status   *)
(* 500 and the text of the exchange error written to the caller.           *)
(***************************************************************************)
C2_TransportFailureIs500 ==
    \A r \in Reqs :
        (/\ Finished(r)
         /\ RouterFound(r)
         /\ Took(r, "errhook")
         /\ resp[r] = <<>>
         /\ HookLooked(r)
         /\ HookLookup(r).name = lookups[r][1].name
         /\ HookLookup(r).name # <<>>
         /\ ~HookLookup(r).err
         /\ Len(HookLookup(r).result) >= 1)
        => /\ Len(written[r]) = 1
           /\ written[r][1].StatusCode = 500
           /\ Contains(written[r][1].Body, xerr[r][1])

(***************************************************************************)
(* C3 (as claimed): the identifier the error hook looks up is the first    *)
(* segment of the inbound path, the one the Router looked up.              *)
(***************************************************************************)
C3_HookLooksUpOriginalService ==
    \A r \in Reqs :
        HookLooked(r) =>
            /\ HookLookup(r).name = FirstSegment(inreq[r].Path)
            /\ RouterLooked(r) => HookLookup(r).name = lookups[r][1].name

(***************************************************************************)
(* C4 (as claimed): a request /{svc}/... for which every registry lookup   *)
(* made for it returns zero instances ends with a 404 whose body names     *)
(* svc.                                                                    *)
(***************************************************************************)
C4_ZeroInstancesIs404 ==
    \A r \in Reqs :
        (/\ Finished(r)
         /\ RouterLooked(r)
         /\ lookups[r][1].name # <<>>
         /\ \A i \in 1..Len(lookups[r]) :
                ~lookups[r][i].err /\ lookups[r][i].result = <<>>)
        => /\ Len(written[r]) = 1
           /\ IsNotFound(written[r][1], FirstSegment(inreq[r].Path))

(***************************************************************************)
(* C5 (as claimed): after a Router lookup that failed with a communication *)
(* error the transport is never asked to forward the request.              *)
(***************************************************************************)
C5_NoForwardAfterRegistryError ==
    \A r \in Reqs :
        (RouterLooked(r) /\ lookups[r][1].name # <<>> /\ lookups[r][1].err)
            => ~Took(r, "forward")

(***************************************************************************)
(* C6: for the empty path the Router returns without any registry lookup   *)
(* and with scheme, host, path and headers of the request as they were.    *)
(***************************************************************************)
C6_EmptyPathUntouched ==
    \A r \in Reqs :
        (PastDirector(r) /\ inreq[r].Path = <<>>) =>
            /\ pc[r] # "panic"
            /\ ~RouterLooked(r)
            /\ outreq[r] = inreq[r]

C6_Witness ==
    \E r \in Reqs :
        /\ inreq[r].Path = <<>>
        /\ inreq[r].Scheme = "http"
        /\ Took(r, "forward")

(***************************************************************************)
(* C7 (as claimed): for the path "/" the Router leaves the request as it   *)
(* was, whatever the registry answers for the empty identifier.            *)
(***************************************************************************)
C7_RootPathUntouched ==
    \A r \in Reqs :
        (PastDirector(r) /\ inreq[r].Path = <<"/">>) => outreq[r] = inreq[r]

(***************************************************************************)
(* C8 (as claimed): a request whose Router lookup failed with a            *)
(* communication error is never answered 404 "<svc> Not Found".            *)
(***************************************************************************)
C8_RegistryErrorNotReportedAsNotFound ==
    \A r \in Reqs :
        (RouterLooked(r) /\ lookups[r][1].name # <<>> /\ lookups[r][1].err) =>
            \A i \in 1..Len(written[r]) :
                ~IsNotFound(written[r][i], lookups[r][1].name)

(***************************************************************************)
(* C9: when the error hook's re-query fails with a communication error the *)
(* hook returns and nothing, neither 404 nor 500, is written to the caller.*)
(***************************************************************************)
C9_HookSilentOnRegistryError ==
    \A r \in Reqs :
        (HookLooked(r) /\ HookLookup(r).err) =>
            /\ written[r] = <<>>
            /\ pc[r] = "done"

C9_Witness ==
    \E r \in Reqs :
        /\ pc[r] = "done"
        /\ Took(r, "errhook")
        /\ HookLooked(r)
        /\ HookLookup(r).err
        /\ xerr[r] \in {<<e>> : e \in DialErrors}

(***************************************************************************)
(* C10: the steps of a request come in the order Router lookup,            *)
(* destination mutation, forward attempt, post-processing (response hook,  *)
(* error hook), each at most once, and once the forward attempt has        *)
(* started the destination never changes again.                            *)
(***************************************************************************)
StepRank(step) ==
    CASE step = "lookup" -> 1
      [] step = "mutate" -> 2
      [] step = "forward" -> 3
      [] step = "modify" -> 4
      [] step = "errhook" -> 5

StepsInOrder(r) ==
    \A i, j \in 1..Len(steps[r]) :
        i < j => StepRank(steps[r][i]) < StepRank(steps[r][j])

C10_StepOrder ==
    [][\A r \in Reqs :
           /\ StepsInOrder(r)'
           /\ Took(r, "mutate")' => (Took(r, "lookup") /\ RouterFound(r))'
           /\ (pc[r] # "idle" /\ outreq'[r] # outreq[r]) =>
                  (~Took(r, "mutate") /\ Took(r, "mutate")')
           /\ Took(r, "forward") => outreq'[r] = outreq[r]]_vars

C10_Witness ==
    \E r \in Reqs :
        /\ steps[r] = <<"lookup", "mutate", "forward", "modify", "errhook">>
        /\ outreq[r] # inreq[r]
        /\ Finished(r)

(***************************************************************************)
(* C11: no retries.  For every request the transport is asked at most once *)
(* and at most one instance is selected, also when the exchange fails and  *)
(* the registry still lists instances; the Router makes one registry       *)
(* lookup (none for the empty path, which it leaves before the lookup) and *)
(* the error hook at most one more.                                        *)
(***************************************************************************)
CountSteps(r, step) ==
    Cardinality({i \in 1..Len(steps[r]) : steps[r][i] = step})

CountLookups(r, by) ==
    Cardinality({i \in 1..Len(lookups[r]) : lookups[r][i].by = by})

C12_HookOnlyOnExchangeFailure ==
    \A r \in Reqs : Took(r, "errhook") => resp[r] = <<>>

(***************************************************************************)
(* C12 (amended): the error hook runs only when the exchange failed or the *)
(* response hook returned an error because the backend's body could not be *)
(* read; a backend response whose body is read never leads to the error    *)
(* hook, whatever its status code.                                         *)
(***************************************************************************)
C12_HookOnlyOnError ==
    \A r \in Reqs :
        /\ Took(r, "errhook") =>
              \/ resp[r] = <<>> /\ xerr[r] \in {<<e>> : e \in DialErrors \cup {UnsupportedScheme}}
              \/ /\ Len(resp[r]) = 1
                 /\ ~resp[r][1].ReadOk
                 /\ Took(r, "modify")
                 /\ xerr[r] = <<ReadError>>
        /\ (resp[r] # <<>> /\ resp[r][1].ReadOk) =>
              (~Took(r, "errhook") /\ xerr[r] = <<>> /\ pc[r] # "errhook")

C12_Witness ==
    \E r \in Reqs :
        /\ pc[r] = "done"
        /\ resp[r] # <<>>
        /\ resp[r][1].StatusCode = 500
        /\ Len(written[r]) = 1
        /\ written[r][1].StatusCode = 500
        /\ ~Took(r, "errhook")

(***************************************************************************)
(* C15: a request the Router routes goes out with X-Real-Ip equal to the   *)
(* caller's remote address, whatever value the caller sent; a request the  *)
(* Router does not route (empty path, lookup error, zero instances) keeps  *)
(* the header as the caller sent it.                                       *)
(***************************************************************************)
C15_ProvenanceHeader ==
    \A r \in Reqs :
        (PastDirector(r) /\ (Took(r, "forward") \/ pc[r] = "roundtrip")) =>
            IF RouterFound(r)
            THEN outreq[r].XRealIp = <<inreq[r].RemoteAddr>>
            ELSE outreq[r].XRealIp = inreq[r].XRealIp

C15_Witness ==
    \E r \in Reqs :
        /\ Took(r, "forward")
        /\ RouterFound(r)
        /\ inreq[r].XRealIp = <<<<"6.6.6.6">>>>
        /\ outreq[r].XRealIp = <<RemoteAddr>>

(***************************************************************************)
(* C16: the response hook takes the rewrite branch for every status code,  *)
(* 200, 201, 203 and 204 included: the body is read (a body that cannot be *)
(* read makes the hook return the error) and the length is recomputed from *)
(* the body, also where the backend declared none.                         *)
(***************************************************************************)
C16_RewriteForEveryStatus ==
    \A r \in Reqs :
        Took(r, "modify") =>
            IF resp[r][1].ReadOk
            THEN /\ Len(resp[r]) = 2
                 /\ resp[r][2].StatusCode = resp[r][1].StatusCode
                 /\ resp[r][2].ContentLength = Len(resp[r][1].Body)
                 /\ resp[r][2].HdrContentLength # <<>>
            ELSE /\ Len(resp[r]) = 1
                 /\ xerr[r] = <<ReadError>>

C16_Witness ==
    \E r \in Reqs :
        /\ Took(r, "modify")
        /\ resp[r][1].StatusCode = 204
        /\ resp[r][1].ContentLength = -1
        /\ Len(resp[r]) = 2
        /\ resp[r][2].ContentLength = 0

(***************************************************************************)
(* C17: a backend response that was received and read is delivered to the  *)
(* caller with the backend's status code and the backend's body, and its   *)
(* Content-Length, field and header, is the length of that body.           *)
(***************************************************************************)
DigitValue(c) ==
    CASE c = "0" -> 0 [] c = "1" -> 1 [] c = "2" -> 2 [] c = "3" -> 3
      [] c = "4" -> 4 [] c = "5" -> 5 [] c = "6" -> 6 [] c = "7" -> 7
      [] c = "8" -> 8 [] c = "9" -> 9

\* the number a decimal text stands for
RECURSIVE ParseInt(_)
ParseInt(text) ==
    IF Len(text) = 0 THEN 0
    ELSE 10 * ParseInt(SubSeq(text, 1, Len(text) - 1)) + DigitValue(text[Len(text)])

C17_ResponseRelayed ==
    \A r \in Reqs :
        (pc[r] = "done" /\ resp[r] # <<>> /\ resp[r][1].ReadOk) =>
            /\ Len(written[r]) = 1
            /\ written[r][1].StatusCode = resp[r][1].StatusCode
            /\ written[r][1].Body = resp[r][1].Body
            /\ Len(written[r][1].HdrContentLength) = 1
            /\ ParseInt(written[r][1].HdrContentLength[1]) = Len(resp[r][1].Body)
            /\ resp[r][Len(resp[r])].ContentLength = Len(resp[r][1].Body)

C17_Witness ==
    \E r \in Reqs :
        /\ pc[r] = "done"
        /\ resp[r] # <<>>
        /\ resp[r][1].StatusCode = 404
        /\ resp[r][1].Body = <<"x">>
        /\ resp[r][1].ContentLength = -1
        /\ Len(written[r]) = 1
        /\ written[r][1].Body = <<"x">>
        /\ written[r][1].HdrContentLength = <<<<"1">>>>

(***************************************************************************)
(* C18 (as claimed): for every non-empty path the Router obtains a         *)
(* ServiceIdentifier - the second token always exists, also for a path     *)
(* without "/" such as "*" - and goes on to look it up.                    *)
(***************************************************************************)
C18_ServiceNameAlwaysDefined ==
    \A r \in Reqs :
        (PastDirector(r) /\ inreq[r].Path # <<>>) =>
            (RouterLooked(r) /\ ~(pc[r] = "panic" /\ steps[r] = <<>>))

(***************************************************************************)
(* C19 (as claimed): no request ever aborts its handler (index out of      *)
(* range, nil error); it ends relayed, with a 404, with a 500, or with the *)
(* error hook returning without writing, and at most one response written. *)
(***************************************************************************)
C19_NoAbnormalAbort ==
    \A r \in Reqs :
        /\ pc[r] # "panic"
        /\ Len(written[r]) <= 1
        /\ pc[r] = "done" =>
              \/ written[r] = <<>> /\ Took(r, "errhook")
              \/ /\ Len(written[r]) = 1
                 /\ \/ resp[r] # <<>> /\ ~Took(r, "errhook")
                    \/ written[r][1].StatusCode \in {404, 500} /\ Took(r, "errhook")

(***************************************************************************)
(* C13: registry results are not reused across requests.  The instance a   *)
(* request is routed to is in the result of the Router's lookup for that   *)
(* same request, and is none of the instances the registry had stopped     *)
(* listing when that lookup was made - also when an earlier request was    *)
(* routed to such an instance.                                             *)
(***************************************************************************)
C13_NoStaleInstance ==
    \A r \in ConcReqs :
        tgt[r] # <<>> =>
            /\ RouterFound(r)
            /\ \E i \in 1..Len(lookups[r][1].result) :
                   lookups[r][1].result[i] = tgt[r][1]
            /\ tgt[r][1] \notin lookups[r][1].delisted
            /\ outreq[r].Host = tgt[r][1].ServiceAddress \o <<":">>
                                   \o FormatInt(tgt[r][1].ServicePort)

C13_Witness ==
    \E r, q \in ConcReqs :
        /\ r # q
        /\ tgt[q] # <<>>
        /\ lookups[q][1].delisted = {}
        /\ tgt[r] # <<>>
        /\ tgt[q][1] \in lookups[r][1].delisted
        /\ tgt[r] # tgt[q]
        /\ Took(r, "forward")

(***************************************************************************)
(* C14: requests served side by side are independent.  A step of one       *)
(* request changes nothing of another request, and the destination and the *)
(* response written for a request are those its own path, the answers to   *)
(* its own lookups and its own exchange give.                              *)
(***************************************************************************)
OwnState(r) ==
    <<pc[r], inreq[r], outreq[r], lookups[r], steps[r], tgt[r], xerr[r],
      resp[r], written[r]>>

OwnDestination(r) ==
    IF RouterFound(r)
    THEN /\ outreq[r].Scheme = "http"
         /\ outreq[r].Path = Remainder(inreq[r].Path)
         /\ \E i \in 1..Len(lookups[r][1].result) :
                outreq[r].Host = lookups[r][1].result[i].ServiceAddress \o <<":">>
                                    \o FormatInt(lookups[r][1].result[i].ServicePort)
    ELSE outreq[r] = inreq[r]

OwnOutcome(r) ==
    \A i \in 1..Len(written[r]) :
        IF Took(r, "errhook")
        THEN /\ HookLooked(r)
             /\ HookLookup(r).name = FirstSegment(outreq[r].Path)
             /\ HookLookup(r).result = <<>>
             /\ IsNotFound(written[r][i], HookLookup(r).name)
        ELSE /\ resp[r] # <<>>
             /\ written[r][i].StatusCode = resp[r][1].StatusCode
             /\ written[r][i].Body = resp[r][1].Body

C14_RequestsIndependent ==
    [][\A r \in ConcReqs :
           /\ OwnState(r)' # OwnState(r) =>
                  \A q \in ConcReqs \ {r} : OwnState(q)' = OwnState(q)
           /\ (pc[r] \notin {"idle", "director"})' => OwnDestination(r)'
           /\ OwnOutcome(r)']_vars

C14_Witness ==
    \E r, q \in ConcReqs :
        /\ r # q
        /\ inreq[r].Path # inreq[q].Path
        /\ RouterFound(r) /\ RouterFound(q)
        /\ outreq[r].Host # outreq[q].Host
        /\ pc[r] = "done" /\ Len(written[r]) = 1 /\ written[r][1].StatusCode = 200
        /\ pc[q] = "done" /\ Len(written[q]) = 1 /\ written[q][1].StatusCode = 404

====
